---- MODULE Spec2Model ----
(***************************************************************************)
(* A model of the hardened user-registry service (src/app_latest):         *)
(*   - validate_name and the name handling of create_user (routes.py),     *)
(*   - the scoped connection manager get_db_connection and init_db         *)
(*     (database.py), run step by step by concurrent threads against a     *)
(*     transactional store,                                                *)
(*   - the repository operations add_user, get_user, get_user_by_name      *)
(*     (services.py),                                                      *)
(*   - the lock-guarded active-user list (services.py).                    *)
(* Strings are sequences of code points.                                   *)
(*                                                                         *)
(* Notes on the source:                                                    *)
(*   - routes.py annotates validate_name with Optional (line 20) but       *)
(*     imports only Tuple, Dict, Any (line 11); the model is of the        *)
(*     function's body.                                                    *)
(*   - routes.py imports add_user and get_user only (line 13): no route    *)
(*     calls set_user_active or get_active_users.                          *)
(*   - the older package src/app has the same connection manager and       *)
(*     active-user list; its add_user binds the name unstripped and its    *)
(*     get_user has no short-circuit.                                      *)
(***************************************************************************)
EXTENDS Integers, Sequences, FiniteSets, TLC

VARIABLES
    \* ---- validation (routes.py) ----
    raw,          \* the JSON value found under "name"
    maxLength,    \* the configured MAX_NAME_LENGTH
    vpc,          \* position of the validation run: "call", "validated", "done"
    verdict,      \* what validate_name returned: [ok, msg]
    accepted,     \* the name create_user hands to add_user (routes.py:92)
    \* ---- store and connections (database.py, services.py) ----
    tableExists,  \* the users table exists in the database file
    rows,         \* committed rows of users, in rowid order
    seq,          \* committed AUTOINCREMENT high-water mark (sqlite_sequence)
    writer,       \* the thread whose connection holds the write transaction
    pc,           \* per thread: position inside the running operation
    op,           \* per thread: the operation running or last run
    arg,          \* per thread: its argument (a name or an id)
    conn,         \* per thread: "none", "open" or "closed"
    stmt,         \* per thread: the statement last handed to conn.execute
    pending,      \* per thread: rows written by the open transaction
    retval,       \* per thread: the value the block's return statement set
    err,          \* per thread: the exception in flight
    origErr,      \* per thread: where and what the first exception was
    result,       \* per thread: outcome of the finished operation
    expect,       \* per thread: the name create had returned for a get's id
    created,      \* (id, name) pairs returned by successful creates
    ncalls,       \* number of operations started
    \* ---- active-user list (services.py) ----
    active,       \* _active_users
    lockHolder,   \* the thread inside `with _active_users_lock`
    mpc,          \* per marker thread: position
    mid,          \* per marker thread: the id of its call
    entry,        \* the list as the lock holder found it, and the id it marks
    csLog,        \* ids in the order their critical sections ran
    snap,         \* last copy returned by get_active_users
    \* ---- one HTTP request (routes.py) ----
    route,        \* the endpoint handling it: "create_user", "get_user_endpoint"
    body,         \* what the POST carries: not JSON, too large, ..., a "name"
    pathId,       \* <int:user_id> of the GET
    rpc,          \* position of the handler
    http,         \* the response: status and JSON body
    \* ---- application startup (app_latest/__init__.py) ----
    cfg,          \* get_config(): DEBUG and INIT_DB_ON_START
    lazy,         \* the interpreter evaluates annotations only on demand
    apc,          \* position of create_app
    app,          \* what create_app returned: "none" or "Flask"
    appErr,       \* the exception create_app raised
    errorLog      \* errors create_app wrote to the log

valVars == <<raw, maxLength, vpc, verdict, accepted>>
dbVars == <<tableExists, rows, seq, writer, pc, op, arg, conn, stmt, pending,
            retval, err, origErr, result, expect, created, ncalls>>
actVars == <<active, lockHolder, mpc, mid, entry, csLog, snap>>
reqVars == <<route, body, pathId, rpc, http>>
startVars == <<cfg, lazy, apc, app, appErr, errorLog>>
appVars == <<reqVars, startVars>>
vars == <<valVars, dbVars, actVars, appVars>>

-----------------------------------------------------------------------------
(* Bounds                                                                  *)

\* longest text value tried as a name
MaxLen == 3

\* the MAX_NAME_LENGTH default (config.py)
DefaultMaxNameLength == 255

\* a small configured MAX_NAME_LENGTH, so that over-long names occur
SmallMaxNameLength == 2

-----------------------------------------------------------------------------
(* Strings                                                                 *)

\* code points names are built from: 0 NUL, a control character that is not
\* whitespace; 9 TAB, an allowed control character; 31 US (unit separator),
\* a control character that str.strip() removes; 32 the blank; 39 the SQL
\* quote; 65 a letter; 55296 a lone surrogate, which JSON can carry
\* ("\ud800") and the store's driver cannot encode
Chars == {0, 9, 31, 32, 39, 65, 55296}

\* str.isspace() for code points below 128
IsSpace(c) == c \in {9, 10, 11, 12, 13, 28, 29, 30, 31, 32}

RECURSIVE LStrip(_)
LStrip(s) ==
    IF s = <<>> THEN <<>>
    ELSE IF IsSpace(Head(s)) THEN LStrip(Tail(s)) ELSE s

RECURSIVE RStrip(_)
RStrip(s) ==
    IF s = <<>> THEN <<>>
    ELSE IF IsSpace(s[Len(s)]) THEN RStrip(SubSeq(s, 1, Len(s) - 1)) ELSE s

\* str.strip()
Strip(s) == RStrip(LStrip(s))

Strings(n) == UNION {[1..k -> Chars] : k \in 0..n}

-----------------------------------------------------------------------------
(* JSON values and validate_name                                           *)

\* a JSON value: kind, a number (the bool, the int, or the size of a
\* list/dict) and the text of a string
Val(k, n, s) == [kind |-> k, n |-> n, s |-> s]

RawValues ==
    {Val("none", 0, <<>>)}
    \cup {Val("bool", b, <<>>) : b \in {0, 1}}
    \cup {Val("int", i, <<>>) : i \in {0, 7}}
    \cup {Val("list", z, <<>>) : z \in {0, 1}}
    \cup {Val("dict", z, <<>>) : z \in {0, 1}}
    \cup {Val("str", 0, s) : s \in Strings(MaxLen)}

\* Python truth value of a JSON value: `not name` is ~Truthy(name)
Truthy(v) ==
    CASE v.kind = "none" -> FALSE
      [] v.kind = "str" -> v.s # <<>>
      [] OTHER -> v.n # 0

\* the control-character test of routes.py:46
BadChar(c) == c < 32 /\ c \notin {9, 10, 13}

HasBadChar(s) == \E i \in 1..Len(s) : BadChar(s[i])

MsgRequired == "Name is required"
MsgNotString == "Name must be a string"
MsgEmpty == "Name cannot be empty"
\* routes.py 43: f"Name must be no longer than {max_length} characters"
MsgTooLong(max_length) ==
    "Name must be no longer than " \o ToString(max_length) \o " characters"
MsgInvalidChars == "Name contains invalid characters"

Valid == [ok |-> TRUE, msg |-> "None"]
Invalid(m) == [ok |-> FALSE, msg |-> m]

\* validate_name without the control-character test of line 46
validate_name_NoCharTest(name, max_length) ==
    IF ~Truthy(name) THEN Invalid(MsgRequired)
    ELSE IF name.kind # "str" THEN Invalid(MsgNotString)
    ELSE LET n == Strip(name.s) IN
         IF n = <<>> THEN Invalid(MsgEmpty)
         ELSE IF Len(n) > max_length THEN Invalid(MsgTooLong(max_length))
         ELSE Valid

validate_name(name, max_length) ==
    IF ~Truthy(name) THEN Invalid(MsgRequired)
    ELSE IF name.kind # "str" THEN Invalid(MsgNotString)
    ELSE LET n == Strip(name.s) IN
         IF n = <<>> THEN Invalid(MsgEmpty)
         ELSE IF Len(n) > max_length THEN Invalid(MsgTooLong(max_length))
         ELSE IF HasBadChar(n) THEN Invalid(MsgInvalidChars)
         ELSE Valid

NoVerdict == [ok |-> FALSE, msg |-> "pending"]
NoName == <<-1>>

\* create_user, lines 86-87: validate the value under "name"
ValidateStep ==
    /\ vpc = "call"
    /\ verdict' = validate_name(raw, maxLength)
    /\ vpc' = "validated"
    /\ UNCHANGED <<raw, maxLength, accepted>>

\* create_user, lines 89-92: reject, or strip the value for add_user
AcceptStep ==
    /\ vpc = "validated"
    /\ accepted' = IF verdict.ok THEN Strip(raw.s) ELSE NoName
    /\ vpc' = "done"
    /\ UNCHANGED <<raw, maxLength, verdict>>

ValInit ==
    /\ raw \in RawValues
    /\ maxLength \in {SmallMaxNameLength, DefaultMaxNameLength}
    /\ vpc = "call"
    /\ verdict = NoVerdict
    /\ accepted = NoName

ValIdle ==
    /\ raw = Val("none", 0, <<>>)
    /\ maxLength = DefaultMaxNameLength
    /\ vpc = "done"
    /\ verdict = NoVerdict
    /\ accepted = NoName

-----------------------------------------------------------------------------
(* The store: one table, a write transaction per connection               *)

\* operations started in one run
MaxCalls == 4

\* threads of execution that call the repository; 0 stands for nobody.
\* Two threads give every conflict the store knows: a second connection
\* writing, reading or creating the table while the first holds the write
\* transaction.
Threads == {1, 2}

\* names handed to the repository: empty, a plain name, an untrimmed name,
\* blank only, the injection text "';--" and a lone surrogate, which the
\* driver cannot encode
NameArgs == {<<>>, <<65>>, <<32, 65>>, <<32>>, <<39, 59, 45, 45>>, <<55296>>}

\* names looked up
NameQueries == {<<>>, <<65>>, <<32, 65>>}

\* ids asked for
IdArgs == {-5, 0, 1, 2}

NoErr == "none"
StoreError == "sqlite3.Error"
BindError == "UnicodeEncodeError"
ValueError == "ValueError"

\* Python values handed back by the repository
NoneVal == [kind |-> "None", id |-> 0, name |-> <<>>]
IntVal(i) == [kind |-> "int", id |-> i, name |-> <<>>]
UserDict(r) == [kind |-> "dict", id |-> r.id, name |-> r.name]

Ret(v) == [kind |-> "ret", err |-> NoErr, val |-> v]
Raise(e) == [kind |-> "raise", err |-> e, val |-> NoneVal]
NoResult == [kind |-> "none", err |-> NoErr, val |-> NoneVal]

Arg(i, n) == [id |-> i, name |-> n]
NoArg == Arg(0, <<>>)

\* a statement: its text, as literal pieces and pieces spliced in from
\* values, and the bound parameters
Lit(x) == [lit |-> x, spliced |-> <<>>]
Stmt(t, p) == [text |-> t, params |-> p]
NoStmt == Stmt(<<>>, <<>>)

InsertSql == "INSERT INTO users (name) VALUES (?)"
SelectByIdSql == "SELECT id, name FROM users WHERE id = ?"
SelectByNameSql == "SELECT id, name FROM users WHERE name = ?"
CreateTableSql == "CREATE TABLE IF NOT EXISTS users"
SelectOneSql == "SELECT 1"

\* the INSERT with the name interpolated into the text, as the prototype does
InsertQueryInterpolated(name) ==
    Stmt(<<Lit("INSERT INTO users (name) VALUES ('"),
           [lit |-> "", spliced |-> Strip(name)],
           Lit("')")>>, <<>>)

\* add_user, lines 43-46
InsertQuery(name) == Stmt(<<Lit(InsertSql)>>, <<Strip(name)>>)

\* get_user, lines 77-80
SelectByIdQuery(user_id) == Stmt(<<Lit(SelectByIdSql)>>, <<user_id>>)

\* get_user_by_name, lines 109-112
SelectByNameQuery(name) == Stmt(<<Lit(SelectByNameSql)>>, <<Strip(name)>>)

Query(o, a) ==
    CASE o = "add_user" -> InsertQuery(a.name)
      [] o = "get_user" -> SelectByIdQuery(a.id)
      [] o = "get_user_by_name" -> SelectByNameQuery(a.name)
      [] o = "init_db" -> Stmt(<<Lit(CreateTableSql)>>, <<>>)
      [] OTHER -> Stmt(<<Lit(SelectOneSql)>>, <<>>)

\* the text value a statement carries: its parameter, or what was spliced
\* into its text
Spliced(q) == {i \in 1..Len(q.text) : q.text[i].lit = ""}
TextParam(q) ==
    IF q.params # <<>> THEN q.params[1] ELSE q.text[CHOOSE i \in Spliced(q) : TRUE].spliced

\* the driver cannot encode a lone surrogate as UTF-8 (UnicodeEncodeError)
Unencodable(s) == \E i \in 1..Len(s) : s[i] >= 55296 /\ s[i] <= 57343

IsWrite(o) == o = "add_user"

\* the first row a SELECT matches, as fetchone returns it
RECURSIVE FirstMatch(_, _, _)
FirstMatch(rs, byId, q) ==
    IF rs = <<>> THEN NoneVal
    ELSE IF (byId /\ Head(rs).id = q.params[1]) \/ (~byId /\ Head(rs).name = q.params[1])
         THEN UserDict(Head(rs))
         ELSE FirstMatch(Tail(rs), byId, q)

\* get_user / get_user_by_name, lines 81-84 and 113-116
FetchOne(o, q) == FirstMatch(rows, o = "get_user", q)

-----------------------------------------------------------------------------
(* Calls: the code of each operation before its `with` block               *)

\* An outcome is handed to the caller before any other step is taken: the
\* hand-over touches no shared state, so no interleaving is lost.
Quiet == \A u \in Threads : pc[u] # "done"

\* threads are interchangeable: a thread takes a call only when every
\* thread before it is busy
CanCall(t) ==
    /\ Quiet
    /\ pc[t] = "idle"
    /\ ncalls < MaxCalls
    /\ \A u \in Threads : u < t => pc[u] # "idle"

Enter(t, o, a) ==
    /\ op' = [op EXCEPT ![t] = o]
    /\ arg' = [arg EXCEPT ![t] = a]
    /\ ncalls' = ncalls + 1
    /\ conn' = [conn EXCEPT ![t] = "none"]
    /\ stmt' = [stmt EXCEPT ![t] = NoStmt]
    /\ err' = [err EXCEPT ![t] = NoErr]
    /\ origErr' = [origErr EXCEPT ![t] = [at |-> "none", kind |-> NoErr]]
    /\ retval' = [retval EXCEPT ![t] = NoneVal]
    /\ UNCHANGED <<tableExists, rows, seq, writer, pending, created>>

\* add_user, line 38: `not name` (every name here is a str)
RejectsName(name) == name = <<>>

\* get_user without its short-circuit: every id goes to the store
NeverShortCircuit(user_id) == FALSE

\* get_user, line 72 (every id here is an int)
ShortCircuitGetUser(user_id) == user_id <= 0

\* the name create has returned for this id, if any
Expected(i) ==
    IF \E c \in created : c.id = i
    THEN (CHOOSE c \in created : c.id = i).name
    ELSE NoName

\* add_user(name, database_path), lines 38-42
CallAddUser(t, name) ==
    /\ CanCall(t)
    /\ Enter(t, "add_user", Arg(0, name))
    /\ expect' = [expect EXCEPT ![t] = NoName]
    /\ IF RejectsName(name)
       THEN /\ result' = [result EXCEPT ![t] = Raise(ValueError)]
            /\ pc' = [pc EXCEPT ![t] = "done"]
       ELSE /\ result' = [result EXCEPT ![t] = NoResult]
            /\ pc' = [pc EXCEPT ![t] = "connect"]

\* get_user(user_id, database_path), lines 72-76
CallGetUser(t, user_id) ==
    /\ CanCall(t)
    /\ Enter(t, "get_user", Arg(user_id, <<>>))
    /\ expect' = [expect EXCEPT ![t] = Expected(user_id)]
    /\ IF ShortCircuitGetUser(user_id)
       THEN /\ result' = [result EXCEPT ![t] = Ret(NoneVal)]
            /\ pc' = [pc EXCEPT ![t] = "done"]
       ELSE /\ result' = [result EXCEPT ![t] = NoResult]
            /\ pc' = [pc EXCEPT ![t] = "connect"]

\* get_user_by_name(name, database_path), lines 104-108
CallGetUserByName(t, name) ==
    /\ CanCall(t)
    /\ Enter(t, "get_user_by_name", Arg(0, name))
    /\ expect' = [expect EXCEPT ![t] = NoName]
    /\ IF RejectsName(name)
       THEN /\ result' = [result EXCEPT ![t] = Ret(NoneVal)]
            /\ pc' = [pc EXCEPT ![t] = "done"]
       ELSE /\ result' = [result EXCEPT ![t] = NoResult]
            /\ pc' = [pc EXCEPT ![t] = "connect"]

\* init_db(database_path), lines 62-63
CallInitDb(t) ==
    /\ CanCall(t)
    /\ Enter(t, "init_db", NoArg)
    /\ expect' = [expect EXCEPT ![t] = NoName]
    /\ result' = [result EXCEPT ![t] = NoResult]
    /\ pc' = [pc EXCEPT ![t] = "connect"]

\* health_check, lines 158-163
CallHealthCheck(t) ==
    /\ CanCall(t)
    /\ Enter(t, "health_check", NoArg)
    /\ expect' = [expect EXCEPT ![t] = NoName]
    /\ result' = [result EXCEPT ![t] = NoResult]
    /\ pc' = [pc EXCEPT ![t] = "connect"]

-----------------------------------------------------------------------------
(* get_db_connection, one step per statement of the generator              *)

Fails(t, at, e) ==
    /\ err' = [err EXCEPT ![t] = e]
    /\ origErr' = [origErr EXCEPT ![t] = [at |-> at, kind |-> e]]
    /\ pc' = [pc EXCEPT ![t] = "except"]

\* lines 32-33: sqlite3.connect and the row factory; the connect fails when
\* the file cannot be opened
Connect(t) ==
    /\ Quiet
    /\ pc[t] = "connect"
    /\ \E ok \in BOOLEAN :
         IF ok
         THEN /\ conn' = [conn EXCEPT ![t] = "open"]
              /\ pc' = [pc EXCEPT ![t] = "execute"]
              /\ UNCHANGED <<err, origErr>>
         ELSE /\ Fails(t, "connect", StoreError)
              /\ UNCHANGED conn
    /\ UNCHANGED <<tableExists, rows, seq, writer, op, arg, stmt, pending,
                   retval, result, expect, created, ncalls>>

\* what conn.execute(q) raises, if anything.  The statement is prepared
\* first: a file that cannot be read or a missing table is a sqlite3.Error
\* whatever the parameter.  Then the parameter is bound: a str the driver
\* cannot encode is a UnicodeEncodeError.  Then the statement runs: a write
\* finds the database locked by another connection's write transaction.
ExecError(t, o, q, ioFails) ==
    IF ioFails THEN StoreError
    ELSE IF o \in {"add_user", "get_user", "get_user_by_name"} /\ ~tableExists
         THEN StoreError
    ELSE IF o \in {"add_user", "get_user_by_name"} /\ Unencodable(TextParam(q)) THEN BindError
    ELSE IF (IsWrite(o) \/ (o = "init_db" /\ ~tableExists)) /\ writer \notin {0, t}
         THEN StoreError
    ELSE NoErr

\* an id taken from the number of rows stored, not from the sequence
NewRowIdFromCount == Len(rows)

\* `id INTEGER PRIMARY KEY AUTOINCREMENT` (database.py 66): the id an INSERT
\* is given, one above the highest id the table ever held; cursor.lastrowid
\* (services.py 47) reads it back
NewRowId == seq + 1

\* the `with` block of each operation: the statement is executed and the
\* block returns (services.py 43-49, 77-84, 109-116; database.py 64-72;
\* routes.py 164).  An INSERT opens the connection's write transaction and
\* takes the next AUTOINCREMENT id; CREATE TABLE runs outside a transaction
\* and takes effect at once.
Execute(t) ==
    /\ Quiet
    /\ pc[t] = "execute"
    /\ LET q == Query(op[t], arg[t]) IN
       /\ stmt' = [stmt EXCEPT ![t] = q]
       /\ \E ioFails \in BOOLEAN :
            LET e == ExecError(t, op[t], q, ioFails) IN
            IF e # NoErr
            THEN /\ Fails(t, "execute", e)
                 /\ UNCHANGED <<tableExists, writer, pending, retval>>
            ELSE /\ pc' = [pc EXCEPT ![t] = "commit"]
                 /\ UNCHANGED <<err, origErr>>
                 /\ CASE op[t] = "add_user" ->
                           /\ pending' = [pending EXCEPT ![t] =
                                  <<[id |-> NewRowId, name |-> TextParam(q)]>>]
                           /\ writer' = t
                           /\ retval' = [retval EXCEPT ![t] = IntVal(NewRowId)]
                           /\ UNCHANGED tableExists
                      [] op[t] \in {"get_user", "get_user_by_name"} ->
                           /\ retval' = [retval EXCEPT ![t] = FetchOne(op[t], q)]
                           /\ UNCHANGED <<tableExists, writer, pending>>
                      [] op[t] = "init_db" ->
                           /\ tableExists' = TRUE
                           /\ UNCHANGED <<writer, pending, retval>>
                      [] OTHER ->
                           UNCHANGED <<tableExists, writer, pending, retval>>
    /\ UNCHANGED <<rows, seq, op, arg, conn, result, expect, created, ncalls>>

\* a commit that is lost: nothing becomes visible
CommitNothing(rs, p) == rs

\* line 35, conn.commit(): the rows of the transaction become visible
CommitRows(rs, p) == rs \o p

\* line 35: a commit with an open write transaction can fail (disk full,
\* busy); with nothing to commit it does nothing
Commit(t) ==
    /\ Quiet
    /\ pc[t] = "commit"
    /\ \E ok \in BOOLEAN :
         IF ok \/ pending[t] = <<>>
         THEN /\ rows' = CommitRows(rows, pending[t])
              /\ seq' = seq + Len(pending[t])
              /\ pending' = [pending EXCEPT ![t] = <<>>]
              /\ writer' = IF writer = t THEN 0 ELSE writer
              /\ pc' = [pc EXCEPT ![t] = "close"]
              /\ UNCHANGED <<err, origErr>>
         ELSE /\ Fails(t, "commit", StoreError)
              /\ UNCHANGED <<rows, seq, pending, writer>>
    /\ UNCHANGED <<tableExists, op, arg, conn, stmt, retval, result, expect,
                   created, ncalls>>

\* an except clause that forgets the rollback
RollbackSkipped(c, p) == p

\* lines 37-38 and 42-43: `if conn: conn.rollback()`
Rollback(c, p) == IF c = "open" THEN <<>> ELSE p

\* lines 40 and 45: `raise`
Reraise(e) == e

\* lines 36-45: both except clauses
Except(t) ==
    /\ Quiet
    /\ pc[t] = "except"
    /\ pending' = [pending EXCEPT ![t] = Rollback(conn[t], pending[t])]
    /\ writer' = IF writer = t /\ pending'[t] = <<>> THEN 0 ELSE writer
    /\ err' = [err EXCEPT ![t] = Reraise(err[t])]
    /\ pc' = [pc EXCEPT ![t] = "close"]
    /\ UNCHANGED <<tableExists, rows, seq, op, arg, conn, stmt, retval,
                   origErr, result, expect, created, ncalls>>

\* a close on the success path only, instead of in `finally`
FinallyOnSuccessOnly(c, e) == IF c = "open" /\ e = NoErr THEN "closed" ELSE c

\* lines 46-48: `finally: if conn: conn.close()`
Finally(c, e) == IF c = "open" THEN "closed" ELSE c

\* handlers that turn a failure into the absent value
ServiceOutcomeSentinel(o, e, rv) ==
    IF o = "health_check"
    THEN Ret([kind |-> "http", id |-> IF e = NoErr THEN 200 ELSE 503, name |-> <<>>])
    ELSE IF e # NoErr THEN Ret(NoneVal) ELSE Ret(rv)

\* the handlers around the `with` block: add_user 50-55, get_user 85-87,
\* get_user_by_name 117-119, init_db 73-75 re-raise; health_check 166-177
\* answers 200 or 503
ServiceOutcome(o, e, rv) ==
    IF o = "health_check"
    THEN Ret([kind |-> "http", id |-> IF e = NoErr THEN 200 ELSE 503, name |-> <<>>])
    ELSE IF e # NoErr THEN Raise(e) ELSE Ret(rv)

\* the finally clause, then the operation returns or raises to its caller;
\* closing a connection discards a transaction it still has open
Close(t) ==
    /\ Quiet
    /\ pc[t] = "close"
    /\ conn' = [conn EXCEPT ![t] = Finally(conn[t], err[t])]
    /\ pending' = [pending EXCEPT ![t] = IF conn'[t] = "closed" THEN <<>> ELSE pending[t]]
    /\ writer' = IF writer = t /\ pending'[t] = <<>> THEN 0 ELSE writer
    /\ result' = [result EXCEPT ![t] = ServiceOutcome(op[t], err[t], retval[t])]
    /\ created' = IF op[t] = "add_user" /\ result'[t].kind = "ret"
                       /\ result'[t].val.kind = "int"
                  THEN created \cup {[id |-> result'[t].val.id, name |-> arg[t].name]}
                  ELSE created
    /\ pc' = [pc EXCEPT ![t] = "done"]
    /\ UNCHANGED <<tableExists, rows, seq, op, arg, stmt, retval, err, origErr,
                   expect, ncalls>>

\* the caller has taken the outcome; the thread is free for its next call
Forget(t) ==
    /\ pc[t] = "done"
    /\ pc' = [pc EXCEPT ![t] = "idle"]
    /\ op' = [op EXCEPT ![t] = "none"]
    /\ arg' = [arg EXCEPT ![t] = NoArg]
    /\ conn' = [conn EXCEPT ![t] = "none"]
    /\ stmt' = [stmt EXCEPT ![t] = NoStmt]
    /\ retval' = [retval EXCEPT ![t] = NoneVal]
    /\ err' = [err EXCEPT ![t] = NoErr]
    /\ origErr' = [origErr EXCEPT ![t] = [at |-> "none", kind |-> NoErr]]
    /\ result' = [result EXCEPT ![t] = NoResult]
    /\ expect' = [expect EXCEPT ![t] = NoName]
    /\ UNCHANGED <<tableExists, rows, seq, writer, pending, created, ncalls>>

-----------------------------------------------------------------------------
(* The active-user list (services.py 17-19, 122-146)                       *)

\* threads that call set_user_active / get_active_users
NumMarkers == 6

\* user ids marked active when ids may repeat
NumIds == 6

\* `if len(_active_users) > 5`
ActiveCapacity == 5

Markers == 1..NumMarkers
UserIds == 1..NumIds

InList(l, x) == \E i \in 1..Len(l) : l[i] = x

\* no mutual exclusion: the block is entered whoever holds the lock
CanAcquireUnlocked(t) == TRUE

\* `with _active_users_lock:` is entered only while nobody holds the lock
CanAcquire(t) == lockHolder = 0

\* lines 132-133
AppendIfAbsent(l, user_id) == IF InList(l, user_id) THEN l ELSE Append(l, user_id)

\* pop() instead of pop(0): the newest entry goes
PopNewest(l) == SubSeq(l, 1, Len(l) - 1)

\* line 135: pop(0)
PopOldest(l) == Tail(l)

\* lines 134-135
TrimToCapacity(l) == IF Len(l) > ActiveCapacity THEN PopOldest(l) ELSE l

NoEntry == [id |-> 0, list |-> <<>>]

\* set_user_active(user_id), line 131: the lock is taken
Acquire(t, user_id) ==
    /\ mpc[t] = "idle"
    /\ CanAcquire(t)
    /\ lockHolder' = t
    /\ mpc' = [mpc EXCEPT ![t] = "append"]
    /\ mid' = [mid EXCEPT ![t] = user_id]
    /\ entry' = [id |-> user_id, list |-> active]
    /\ snap' = <<>>
    /\ UNCHANGED <<active, csLog>>

\* lines 132-133, inside the lock
AppendStep(t, logged) ==
    /\ mpc[t] = "append"
    /\ active' = AppendIfAbsent(active, mid[t])
    /\ csLog' = IF logged THEN Append(csLog, mid[t]) ELSE csLog
    /\ mpc' = [mpc EXCEPT ![t] = "trim"]
    /\ UNCHANGED <<lockHolder, mid, entry, snap>>

\* lines 134-135, then the lock is released and the call returns
TrimStep(t, after) ==
    /\ mpc[t] = "trim"
    /\ active' = TrimToCapacity(active)
    /\ lockHolder' = 0
    /\ mpc' = [mpc EXCEPT ![t] = after]
    /\ mid' = [mid EXCEPT ![t] = 0]
    /\ UNCHANGED <<entry, csLog, snap>>

\* get_active_users(), lines 145-146: a copy taken under the lock
GetActiveUsers(t) ==
    /\ mpc[t] = "idle"
    /\ CanAcquire(t)
    /\ snap' = active
    /\ UNCHANGED <<active, lockHolder, mpc, mid, entry, csLog>>

ActInit ==
    /\ active = <<>>
    /\ lockHolder = 0
    /\ mpc = [t \in Markers |-> "idle"]
    /\ mid = [t \in Markers |-> 0]
    /\ entry = NoEntry
    /\ csLog = <<>>
    /\ snap = <<>>

\* N concurrent set_user_active calls, one per thread, with pairwise
\* distinct ids (thread t marks id t)
MarkNext ==
    \/ \E t \in Markers : Acquire(t, t) /\ UNCHANGED <<valVars, dbVars, appVars>>
    \/ \E t \in Markers : AppendStep(t, TRUE) /\ UNCHANGED <<valVars, dbVars, appVars>>
    \/ \E t \in Markers : TrimStep(t, "done") /\ UNCHANGED <<valVars, dbVars, appVars>>

\* any calls of set_user_active and get_active_users, ids repeating
ActiveNext ==
    \/ \E t \in Markers, i \in UserIds : Acquire(t, i) /\ UNCHANGED <<valVars, dbVars, appVars>>
    \/ \E t \in Markers : AppendStep(t, FALSE) /\ UNCHANGED <<valVars, dbVars, appVars>>
    \/ \E t \in Markers : TrimStep(t, "idle") /\ UNCHANGED <<valVars, dbVars, appVars>>
    \/ \E t \in Markers : GetActiveUsers(t) /\ UNCHANGED <<valVars, dbVars, appVars>>

-----------------------------------------------------------------------------
(* HTTP responses and the idle application                                 *)

\* jsonify({"error": msg}), status and jsonify({"id": .., "name": ..}), status
NoResponse == [status |-> 0, error |-> "", id |-> 0, name |-> <<>>]
ErrorResponse(status, msg) == [status |-> status, error |-> msg, id |-> 0, name |-> <<>>]
UserResponse(status, i, n) == [status |-> status, error |-> "", id |-> i, name |-> n]

\* no request is being handled
ReqIdle ==
    /\ route = "none"
    /\ body = "none"
    /\ pathId = 0
    /\ rpc = "idle"
    /\ http = NoResponse

\* create_app is not running
StartIdle ==
    /\ cfg = [debug |-> FALSE, initOnStart |-> TRUE]
    /\ lazy = FALSE
    /\ apc = "off"
    /\ app = "none"
    /\ appErr = NoErr
    /\ errorLog = <<>>

AppIdle == ReqIdle /\ StartIdle

-----------------------------------------------------------------------------
(* The repository run by concurrent threads                                *)

DbInit ==
    /\ tableExists = FALSE
    /\ rows = <<>>
    /\ seq = 0
    /\ writer = 0
    /\ pc = [t \in Threads |-> "idle"]
    /\ op = [t \in Threads |-> "none"]
    /\ arg = [t \in Threads |-> NoArg]
    /\ conn = [t \in Threads |-> "none"]
    /\ stmt = [t \in Threads |-> NoStmt]
    /\ pending = [t \in Threads |-> <<>>]
    /\ retval = [t \in Threads |-> NoneVal]
    /\ err = [t \in Threads |-> NoErr]
    /\ origErr = [t \in Threads |-> [at |-> "none", kind |-> NoErr]]
    /\ result = [t \in Threads |-> NoResult]
    /\ expect = [t \in Threads |-> NoName]
    /\ created = {}
    /\ ncalls = 0

Init == ValIdle /\ DbInit /\ ActInit /\ AppIdle

Next ==
    \/ \E t \in Threads, name \in NameArgs : CallAddUser(t, name) /\ UNCHANGED <<valVars, actVars, appVars>>
    \/ \E t \in Threads, i \in IdArgs : CallGetUser(t, i) /\ UNCHANGED <<valVars, actVars, appVars>>
    \/ \E t \in Threads, name \in NameQueries : CallGetUserByName(t, name) /\ UNCHANGED <<valVars, actVars, appVars>>
    \/ \E t \in Threads : CallInitDb(t) /\ UNCHANGED <<valVars, actVars, appVars>>
    \/ \E t \in Threads : CallHealthCheck(t) /\ UNCHANGED <<valVars, actVars, appVars>>
    \/ \E t \in Threads : Connect(t) /\ UNCHANGED <<valVars, actVars, appVars>>
    \/ \E t \in Threads : Execute(t) /\ UNCHANGED <<valVars, actVars, appVars>>
    \/ \E t \in Threads : Commit(t) /\ UNCHANGED <<valVars, actVars, appVars>>
    \/ \E t \in Threads : Except(t) /\ UNCHANGED <<valVars, actVars, appVars>>
    \/ \E t \in Threads : Close(t) /\ UNCHANGED <<valVars, actVars, appVars>>
    \/ \E t \in Threads : Forget(t) /\ UNCHANGED <<valVars, actVars, appVars>>

Spec == Init /\ [][Next]_vars

-----------------------------------------------------------------------------
(* validate_name on its own, over every JSON value of the bounds           *)

ValInitAll == ValInit /\ DbInit /\ ActInit /\ AppIdle

ValNext ==
    \/ ValidateStep /\ UNCHANGED <<dbVars, actVars, appVars>>
    \/ AcceptStep /\ UNCHANGED <<dbVars, actVars, appVars>>

SpecValidate == ValInitAll /\ [][ValNext]_vars

-----------------------------------------------------------------------------
(* The active-user list on its own                                         *)

IdleInit == ValIdle /\ DbInit /\ ActInit /\ AppIdle

SpecMark == IdleInit /\ [][MarkNext]_vars

SpecActive == IdleInit /\ [][ActiveNext]_vars

-----------------------------------------------------------------------------
(* One HTTP request handled by create_user or get_user_endpoint             *)
(* (routes.py 52-147); the handler runs on thread 1                        *)

\* what a POST /users carries: a body that is not JSON, one over 1024
\* bytes, one that does not parse, the JSON null, an object without "name",
\* an object with "name"; or JSON that is no object: a number or boolean,
\* a string or a list, either of them without or with "name" in it
Bodies ==
    {"not_json", "too_large", "invalid_json", "null", "no_name", "name",
     "number", "text_without_name", "text_with_name", "list_without_name",
     "list_with_name"}

\* the store a request finds: no users table (INIT_DB_ON_START off), an
\* empty table, or a table holding the user an earlier request created
Stores ==
    {[table |-> FALSE, rows |-> <<>>],
     [table |-> TRUE, rows |-> <<>>],
     [table |-> TRUE, rows |-> <<[id |-> 1, name |-> <<65>>]>>]}

MsgNotJson == "Content-Type must be application/json"
MsgTooLarge == "Request body too large"
MsgInvalidJson == "Invalid JSON format"
MsgBodyRequired == "Request body is required"
MsgInvalidId == "Invalid user ID"
MsgNotFound == "User not found"
MsgIntegrity == "User with this name may already exist"
MsgDatabase == "Database error occurred"
MsgInternal == "Internal server error"
MsgNonEmptyString == "Name must be a non-empty string"

IsSurrogate(c) == c >= 55296 /\ c <= 57343

HexDigits == <<"0", "1", "2", "3", "4", "5", "6", "7", "8", "9", "a", "b", "c", "d", "e", "f">>

\* the four hexadecimal digits of a code point, as repr() writes them
Hex4(c) ==
    HexDigits[((c \div 4096) % 16) + 1] \o HexDigits[((c \div 256) % 16) + 1]
        \o HexDigits[((c \div 16) % 16) + 1] \o HexDigits[(c % 16) + 1]

\* where the encoder stops: the first surrogate of s and the last of the
\* run of surrogates that starts there (indices from 1)
FirstSurrogate(s) ==
    CHOOSE i \in 1..Len(s) : IsSurrogate(s[i]) /\ \A j \in 1..(i - 1) : ~IsSurrogate(s[j])
RunEnd(s, i) ==
    CHOOSE j \in i..Len(s) :
        /\ \A k \in i..j : IsSurrogate(s[k])
        /\ j = Len(s) \/ ~IsSurrogate(s[j + 1])

\* str(e) of the UnicodeEncodeError raised when s is bound: it names the
\* character and its position (from 0), or the positions of a run
MsgSurrogates(s) ==
    LET i == FirstSurrogate(s)
        j == RunEnd(s, i)
    IN IF i = j
       THEN "'utf-8' codec can't encode character '\\u" \o Hex4(s[i]) \o "' in position "
                \o ToString(i - 1) \o ": surrogates not allowed"
       ELSE "'utf-8' codec can't encode characters in position " \o ToString(i - 1)
                \o "-" \o ToString(j - 1) \o ": surrogates not allowed"


\* create_user, lines 66-84: the checks before the name is looked at
EarlyResponse(b) ==
    CASE b = "not_json" -> ErrorResponse(400, MsgNotJson)
      [] b = "too_large" -> ErrorResponse(413, MsgTooLarge)
      [] b = "invalid_json" -> ErrorResponse(400, MsgInvalidJson)
      [] b = "null" -> ErrorResponse(400, MsgBodyRequired)
      [] b \in {"no_name", "text_without_name", "list_without_name"} ->
             ErrorResponse(400, MsgRequired)
      [] OTHER -> NoResponse

TypeError == "TypeError"

\* the handler raised: no response is returned by it
Unhandled(e) == [status |-> 0, error |-> e, id |-> 0, name |-> <<>>]

\* create_user, lines 83 and 86, are outside the try block: `'name' not in
\* data` raises TypeError for a number or a boolean, and data['name'] raises
\* it for a string or a list that holds 'name'
HandlerRaises(b) == b \in {"number", "text_with_name", "list_with_name"}

\* create_user, lines 66-84
CheckRequest ==
    /\ rpc = "received"
    /\ route = "create_user"
    /\ IF body = "name"
       THEN /\ rpc' = "validate"
            /\ UNCHANGED http
       ELSE IF HandlerRaises(body)
       THEN /\ rpc' = "raised"
            /\ http' = Unhandled(TypeError)
       ELSE /\ rpc' = "responded"
            /\ http' = EarlyResponse(body)
    /\ UNCHANGED <<route, body, pathId, startVars, valVars, dbVars, actVars>>

\* create_user, lines 86-87
ValidateName ==
    /\ rpc = "validate"
    /\ ValidateStep
    /\ UNCHANGED <<reqVars, startVars, dbVars, actVars>>

\* a handler that lets every name through
RejectedNever(v) == FALSE

\* create_user, line 89: `if not is_valid`
Rejected(v) == ~v.ok

\* create_user, lines 89-92: answer 400 with validate_name's message, or
\* strip the name
RejectOrStrip ==
    /\ rpc = "validate"
    /\ AcceptStep
    /\ IF Rejected(verdict)
       THEN /\ http' = ErrorResponse(400, verdict.msg)
            /\ rpc' = "responded"
       ELSE /\ rpc' = "accepted"
            /\ UNCHANGED http
    /\ UNCHANGED <<route, body, pathId, startVars, dbVars, actVars>>

\* create_user, line 96: add_user(name, database_path)
CallCreate ==
    /\ rpc = "accepted"
    /\ CallAddUser(1, accepted)
    /\ rpc' = "service"
    /\ UNCHANGED <<route, body, pathId, http, startVars, valVars, actVars>>

\* create_user, lines 96-114: 201 with the id and the stripped name, or the
\* response of the except clause that matches; `except ValueError` answers
\* 400 with str(e), and takes UnicodeEncodeError, a subclass of ValueError
CreateResponse(res, name) ==
    IF res.kind = "ret" THEN UserResponse(201, res.val.id, name)
    ELSE CASE res.err = "sqlite3.IntegrityError" -> ErrorResponse(409, MsgIntegrity)
           [] res.err = StoreError -> ErrorResponse(500, MsgDatabase)
           [] res.err = ValueError -> ErrorResponse(400, MsgNonEmptyString)
           [] res.err = BindError -> ErrorResponse(400, MsgSurrogates(Strip(name)))
           [] OTHER -> ErrorResponse(500, MsgInternal)

\* get_user_endpoint, lines 134-147
GetResponse(res) ==
    IF res.kind = "ret"
    THEN IF res.val.kind = "None" THEN ErrorResponse(404, MsgNotFound)
         ELSE UserResponse(200, res.val.id, res.val.name)
    ELSE IF res.err = StoreError THEN ErrorResponse(500, MsgDatabase)
         ELSE ErrorResponse(500, MsgInternal)

\* get_user_endpoint, lines 128-132
GetUserEndpoint ==
    /\ rpc = "received"
    /\ route = "get_user_endpoint"
    /\ IF pathId <= 0
       THEN /\ http' = ErrorResponse(400, MsgInvalidId)
            /\ rpc' = "responded"
            /\ UNCHANGED dbVars
       ELSE /\ CallGetUser(1, pathId)
            /\ rpc' = "service"
            /\ UNCHANGED http
    /\ UNCHANGED <<route, body, pathId, startVars, valVars, actVars>>

\* the repository call has returned or raised: the handler answers
Respond ==
    /\ rpc = "service"
    /\ pc[1] = "done"
    /\ http' = IF route = "create_user" THEN CreateResponse(result[1], accepted)
               ELSE GetResponse(result[1])
    /\ rpc' = "responded"
    /\ UNCHANGED <<route, body, pathId, startVars, valVars, dbVars, actVars>>

\* a POST /users request arrives
PostArrives ==
    /\ route = "create_user"
    /\ body \in Bodies
    /\ pathId = 0
    /\ raw \in IF body = "name" THEN RawValues ELSE {Val("none", 0, <<>>)}

\* a GET /users/<int:user_id> request arrives; the converter takes digits only
GetArrives ==
    /\ route = "get_user_endpoint"
    /\ body = "none"
    /\ pathId \in {i \in IdArgs : i >= 0}
    /\ raw = Val("none", 0, <<>>)

\* the database file as a process finds it, and no thread inside the
\* repository
StoreFound ==
    /\ \E st \in Stores :
         /\ tableExists = st.table
         /\ rows = st.rows
         /\ seq = Len(st.rows)
         /\ created = {[id |-> st.rows[k].id, name |-> st.rows[k].name] : k \in 1..Len(st.rows)}
    /\ writer = 0
    /\ pc = [t \in Threads |-> "idle"]
    /\ op = [t \in Threads |-> "none"]
    /\ arg = [t \in Threads |-> NoArg]
    /\ conn = [t \in Threads |-> "none"]
    /\ stmt = [t \in Threads |-> NoStmt]
    /\ pending = [t \in Threads |-> <<>>]
    /\ retval = [t \in Threads |-> NoneVal]
    /\ err = [t \in Threads |-> NoErr]
    /\ origErr = [t \in Threads |-> [at |-> "none", kind |-> NoErr]]
    /\ result = [t \in Threads |-> NoResult]
    /\ expect = [t \in Threads |-> NoName]
    /\ ncalls = 0

RequestInit ==
    /\ PostArrives \/ GetArrives
    /\ rpc = "received"
    /\ http = NoResponse
    /\ maxLength \in {SmallMaxNameLength, DefaultMaxNameLength}
    /\ vpc = "call"
    /\ verdict = NoVerdict
    /\ accepted = NoName
    /\ StoreFound
    /\ ActInit
    /\ StartIdle

RequestNext ==
    \/ CheckRequest
    \/ ValidateName
    \/ RejectOrStrip
    \/ CallCreate
    \/ GetUserEndpoint
    \/ Connect(1) /\ UNCHANGED <<valVars, actVars, appVars>>
    \/ Execute(1) /\ UNCHANGED <<valVars, actVars, appVars>>
    \/ Commit(1) /\ UNCHANGED <<valVars, actVars, appVars>>
    \/ Except(1) /\ UNCHANGED <<valVars, actVars, appVars>>
    \/ Close(1) /\ UNCHANGED <<valVars, actVars, appVars>>
    \/ Respond

SpecRequest == RequestInit /\ [][RequestNext]_vars

\* every step the handler can take is eventually taken
SpecRequestLive == SpecRequest /\ WF_vars(RequestNext)

-----------------------------------------------------------------------------
(* create_app (app_latest/__init__.py 18-48), run once by the main thread  *)

NameError == "NameError"

\* lines 25-37: the Flask object, the configuration, and init_db when
\* INIT_DB_ON_START is set
CreateAppStart ==
    /\ apc = "start"
    /\ IF cfg.initOnStart
       THEN /\ CallInitDb(1)
            /\ apc' = "init_db"
       ELSE /\ apc' = "register"
            /\ UNCHANGED dbVars
    /\ UNCHANGED <<cfg, lazy, app, appErr, errorLog, reqVars, valVars, actVars>>

\* lines 41-42: `if not config['DEBUG']: raise`
Reraises(debug) == ~debug

\* lines 36-42: init_db has returned, or raised into `except Exception`,
\* which logs the error and re-raises it unless DEBUG is set
InitDbReturns ==
    /\ apc = "init_db"
    /\ pc[1] = "done"
    /\ IF result[1].kind = "raise"
       THEN /\ errorLog' = Append(errorLog, result[1].err)
            /\ IF Reraises(cfg.debug)
               THEN /\ appErr' = result[1].err
                    /\ apc' = "failed"
               ELSE /\ apc' = "register"
                    /\ UNCHANGED appErr
       ELSE /\ apc' = "register"
            /\ UNCHANGED <<appErr, errorLog>>
    /\ UNCHANGED <<cfg, lazy, app, reqVars, valVars, dbVars, actVars>>

\* lines 45-48: `from app_latest.routes import api_bp`, register_blueprint,
\* return app.  Executing routes.py evaluates the annotations of
\* validate_name (routes.py 20), where Optional is not imported (routes.py
\* 11): an interpreter that evaluates annotations at definition time raises
\* NameError; one that defers them imports the module.
RegisterRoutes ==
    /\ apc = "register"
    /\ IF lazy
       THEN /\ app' = "Flask"
            /\ apc' = "running"
            /\ UNCHANGED appErr
       ELSE /\ appErr' = NameError
            /\ apc' = "failed"
            /\ UNCHANGED app
    /\ UNCHANGED <<cfg, lazy, errorLog, reqVars, valVars, dbVars, actVars>>

StartupInit ==
    /\ cfg \in [debug : BOOLEAN, initOnStart : BOOLEAN]
    /\ lazy \in BOOLEAN
    /\ apc = "start"
    /\ app = "none"
    /\ appErr = NoErr
    /\ errorLog = <<>>
    /\ StoreFound
    /\ ValIdle
    /\ ActInit
    /\ ReqIdle

StartupNext ==
    \/ CreateAppStart
    \/ Connect(1) /\ UNCHANGED <<valVars, actVars, appVars>>
    \/ Execute(1) /\ UNCHANGED <<valVars, actVars, appVars>>
    \/ Commit(1) /\ UNCHANGED <<valVars, actVars, appVars>>
    \/ Except(1) /\ UNCHANGED <<valVars, actVars, appVars>>
    \/ Close(1) /\ UNCHANGED <<valVars, actVars, appVars>>
    \/ InitDbReturns
    \/ RegisterRoutes

SpecStartup == StartupInit /\ [][StartupNext]_vars

-----------------------------------------------------------------------------
(* Properties of validate_name (SpecValidate)                              *)

Validated == vpc # "call"
IsText == raw.kind = "str"

\* C9 as claimed: validate_name answers "Name is required" only for an
\* absent/null value or the empty string, and "Name must be a string" for
\* every other value that is not text (0, false, [], {} included).
C9_MissingOnlyForNullOrEmptyText ==
    Validated =>
        /\ (verdict.msg = MsgRequired) <=> (raw.kind = "none" \/ (IsText /\ raw.s = <<>>))
        /\ (~IsText /\ raw.kind # "none") => verdict.msg = MsgNotString

\* C10 as claimed: every string holding a control character other than
\* tab, newline and carriage return, wherever it stands, is rejected with
\* "Name contains invalid characters".
C10_AnyControlCharRejected ==
    (Validated /\ IsText /\ HasBadChar(raw.s)) =>
        (~verdict.ok /\ verdict.msg = MsgInvalidChars)

\* C10 amended: the test is made on the text as str.strip() leaves it.  A
\* string is rejected with "Name contains invalid characters" exactly when
\* its stripped form is non-empty, no longer than max_length and holds such
\* a character; when the stripped form holds one the string is rejected in
\* any case (as too long otherwise); and the name create_user passes on,
\* the stripped form of an accepted string, holds none.
C10_ControlCharInStrippedNameRejected ==
    (Validated /\ IsText) =>
        LET n == Strip(raw.s) IN
        /\ (verdict.msg = MsgInvalidChars) <=>
               (n # <<>> /\ Len(n) <= maxLength /\ HasBadChar(n))
        /\ HasBadChar(n) => (~verdict.ok /\ verdict.msg \in {MsgInvalidChars, MsgTooLong(maxLength)})
        /\ (vpc = "done" /\ verdict.ok) => (accepted = n /\ ~HasBadChar(accepted))

\* C10 witness: "A\0A" has been rejected for its NUL
C10_RejectedWitness ==
    /\ vpc = "done"
    /\ raw = Val("str", 0, <<65, 0, 65>>)
    /\ verdict = Invalid(MsgInvalidChars)
    /\ accepted = NoName

-----------------------------------------------------------------------------
(* Properties of the active-user list (SpecMark, SpecActive)               *)

LastN(s, n) == IF Len(s) <= n THEN s ELSE SubSeq(s, Len(s) - n + 1, Len(s))

NoDuplicates(l) == \A i, j \in 1..Len(l) : l[i] = l[j] => i = j

AllMarked == \A t \in Markers : mpc[t] = "done"

\* C5: with N > 5 concurrent set_user_active calls on pairwise distinct ids,
\* whenever the lock is free the list is the last five ids whose critical
\* sections ran, in that order (so never longer than five), and when all N
\* calls have returned every call's critical section has run once.
C5_LastFiveInOrder ==
    /\ lockHolder = 0 => active = LastN(csLog, ActiveCapacity)
    /\ AllMarked => (Len(csLog) = NumMarkers /\ NoDuplicates(csLog))

\* C5 witness: all N > 5 calls have returned and the first id has been evicted
C5_AllMarkedWitness ==
    /\ AllMarked
    /\ NumMarkers > ActiveCapacity
    /\ Len(active) = ActiveCapacity
    /\ ~InList(active, csLog[1])
    /\ active[ActiveCapacity] = csLog[NumMarkers]

\* what set_user_active is to do to the list
MarkEffect(l, user_id) ==
    IF InList(l, user_id) THEN l
    ELSE IF Len(l) >= ActiveCapacity THEN Append(Tail(l), user_id)
    ELSE Append(l, user_id)

\* C6: under any calls of set_user_active and get_active_users with
\* repeating ids, the list never holds an id twice and, whenever the lock is
\* free, holds at most five ids; a call for an id already present leaves the
\* list as it found it, and a call for an absent id at capacity drops
\* exactly the oldest entry.
C6_BoundedDistinctFifo ==
    /\ NoDuplicates(active)
    /\ lockHolder = 0 =>
          /\ Len(active) <= ActiveCapacity
          /\ entry # NoEntry => active = MarkEffect(entry.list, entry.id)
          /\ snap # <<>> => snap = active

\* C6 witness: a call for an absent id found the list full and has returned
C6_EvictionWitness ==
    /\ lockHolder = 0
    /\ Len(entry.list) = ActiveCapacity
    /\ ~InList(entry.list, entry.id)
    /\ active = Append(Tail(entry.list), entry.id)

-----------------------------------------------------------------------------
(* Properties of the repository and the connection manager (Spec)          *)

Injection == <<39, 59, 45, 45>>

Finished(t, o) == pc[t] = "done" /\ op[t] = o
Failed(t) == origErr[t].at # "none"

\* the texts the repository hands to the store
FixedTexts ==
    {<<Lit(x)>> : x \in {InsertSql, SelectByIdSql, SelectByNameSql, CreateTableSql,
                         SelectOneSql}}

\* every statement is one of the fixed texts: values travel as parameters
ParameterBound ==
    \A t \in Threads : stmt[t] # NoStmt =>
        /\ stmt[t].text \in FixedTexts
        /\ op[t] = "add_user" => stmt[t].params = <<Strip(arg[t].name)>>

\* thread t's add_user commits in this step
InsertCommits(t) == pc[t] = "commit" /\ pc'[t] = "close" /\ op[t] = "add_user"

\* what a create may do to the store when the row it adds carries `stored`
CreateEffect(verbatim) ==
    /\ \A t \in Threads : InsertCommits(t) =>
           rows' = Append(rows, [id |-> seq + 1,
                                name |-> IF verbatim THEN arg[t].name
                                         ELSE Strip(arg[t].name)])
    /\ (\A t \in Threads : ~InsertCommits(t)) => rows' = rows
    /\ tableExists => tableExists'
    /\ ParameterBound'

\* C1 as claimed: a successful add_user adds exactly one row whose name is
\* the value passed, verbatim, changes no other row, leaves the table in
\* place, and the value is only ever a bound parameter.
C1_StoresNameVerbatim == [][CreateEffect(TRUE)]_vars

\* C1 amended: the row added carries the value as str.strip() leaves it
\* (verbatim when it has no leading or trailing whitespace, as for the
\* injection text); the rest as claimed.
C1_StoresStrippedName == [][CreateEffect(FALSE)]_vars

\* C1 witness: add_user("';--") has returned, its row is stored as given
C1_InjectionStoredWitness ==
    \E t \in Threads :
        /\ Finished(t, "add_user")
        /\ arg[t].name = Injection
        /\ result[t] = Ret(IntVal(1))
        /\ rows = <<[id |-> 1, name |-> Injection]>>
        /\ tableExists

\* creates whose commit has gone through but which have not returned yet
Returning == {t \in Threads : pc[t] = "close" /\ op[t] = "add_user" /\ ~Failed(t)}

\* C2: once an error has been raised inside a get_db_connection block, by
\* the time the except clause is left the connection's writes are rolled
\* back and the error in flight is the original one; the operation raises
\* that error to its caller; and the store holds rows of creates alone that
\* did not fail, so nothing a failed operation wrote is ever visible.
C2_RollbackAndReraise ==
    /\ \A t \in Threads :
          /\ (pc[t] \in {"close", "done"} /\ Failed(t)) =>
                 (pending[t] = <<>> /\ writer # t /\ err[t] = origErr[t].kind)
          /\ (pc[t] = "done" /\ Failed(t) /\ op[t] # "health_check") =>
                 result[t] = Raise(origErr[t].kind)
    /\ Len(rows) = Cardinality(created) + Cardinality(Returning)
    /\ \A c \in created : \E i \in 1..Len(rows) :
           rows[i] = [id |-> c.id, name |-> Strip(c.name)]

\* C2 witness: the commit of an add_user failed; the call has raised and
\* the store holds no row
C2_CommitFailedWitness ==
    \E t \in Threads :
        /\ Finished(t, "add_user")
        /\ origErr[t] = [at |-> "commit", kind |-> StoreError]
        /\ result[t] = Raise(StoreError)
        /\ tableExists /\ rows = <<>> /\ seq = 0

\* C3: a thread holds an open connection only between the connect and the
\* finally clause of the block it is in: none is open once the operation
\* has returned or raised, nor between calls.
C3_HandleReleased ==
    \A t \in Threads :
        /\ pc[t] \in {"idle", "done", "connect"} => conn[t] # "open"
        /\ conn[t] = "open" => pc[t] \in {"execute", "commit", "except", "close"}
        /\ (pc[t] = "done" /\ stmt[t] # NoStmt) => conn[t] = "closed"

\* C3 witness: an operation has raised out of its block (the statement
\* failed) and its connection is closed
C3_ClosedAfterErrorWitness ==
    \E t \in Threads :
        /\ pc[t] = "done"
        /\ origErr[t].at = "execute"
        /\ result[t].kind = "raise"
        /\ conn[t] = "closed"

\* a name as create_user passes it on: accepted by validate_name, stripped
IsValidatedName(n) ==
    n # NoName /\ Strip(n) = n /\ validate_name(Val("str", 0, n), DefaultMaxNameLength).ok

\* C4: when add_user(n) has returned id i for a validated name n, every
\* get_user(i) called after that, if it returns at all, returns the dict
\* {id: i, name: n}; and the insert is committed while the creating
\* connection is still open.
C4_RoundTrip ==
    \A t \in Threads :
        /\ (Finished(t, "get_user") /\ result[t].kind = "ret" /\ IsValidatedName(expect[t])) =>
               result[t].val = [kind |-> "dict", id |-> arg[t].id, name |-> expect[t]]
        /\ (t \in Returning /\ conn[t] = "open") =>
               \E i \in 1..Len(rows) :
                   rows[i] = [id |-> retval[t].id, name |-> Strip(arg[t].name)]

\* C4 witness: get_user of an id that add_user had returned for the
\* injection text has returned that text
C4_RoundTripWitness ==
    \E t \in Threads :
        /\ Finished(t, "get_user")
        /\ expect[t] = Injection
        /\ result[t] = Ret([kind |-> "dict", id |-> arg[t].id, name |-> Injection])

HasRow(i) == \E k \in 1..Len(rows) : rows[k].id = i

\* C7: get_user answers None for an id of 0 or below without touching the
\* store (no connection, no statement, no error, whatever the store's
\* state); for a positive id that no stored row carries it answers None
\* whenever the store answers; and what it returns is None or the dict of
\* the stored row with that id, never anything else.
C7_AbsenceContract ==
    \A t \in Threads : Finished(t, "get_user") =>
        /\ arg[t].id <= 0 =>
               (result[t] = Ret(NoneVal) /\ conn[t] = "none" /\ stmt[t] = NoStmt /\ ~Failed(t))
        /\ (arg[t].id > 0 /\ result[t].kind = "ret" /\ ~HasRow(arg[t].id)) =>
               result[t].val = NoneVal
        /\ result[t].kind = "ret" =>
               \/ result[t].val = NoneVal
               \/ /\ result[t].val.kind = "dict"
                  /\ result[t].val.id = arg[t].id
                  /\ \E k \in 1..Len(rows) : UserDict(rows[k]) = result[t].val

\* C7 witness: with a row stored, get_user of a positive id never created
\* has returned None
C7_NeverCreatedWitness ==
    \E t \in Threads :
        /\ Finished(t, "get_user")
        /\ arg[t].id = 2
        /\ Len(rows) = 1
        /\ result[t] = Ret(NoneVal)
        /\ conn[t] = "closed"

\* C8: in add_user, get_user and get_user_by_name a failure (at connect,
\* execute or commit) always reaches the caller as the error raised, never
\* as a returned value; a value is returned only when nothing failed, and
\* None only by the short-circuit or after a SELECT that ran.
C8_FailureNeverAbsence ==
    \A t \in Threads :
        (pc[t] = "done" /\ op[t] \in {"add_user", "get_user", "get_user_by_name"}) =>
            /\ Failed(t) => (result[t].kind = "raise" /\ result[t].err = origErr[t].kind)
            /\ result[t].kind = "ret" => ~Failed(t)
            /\ result[t] = Ret(NoneVal) =>
                   /\ op[t] # "add_user"
                   /\ stmt[t] = NoStmt \/ (conn[t] = "closed" /\ tableExists)

\* C8 witness: the SELECT of get_user_by_name failed and the call has raised
\* the store's error
C8_LookupFailedWitness ==
    \E t \in Threads :
        /\ Finished(t, "get_user_by_name")
        /\ origErr[t] = [at |-> "execute", kind |-> StoreError]
        /\ result[t] = Raise(StoreError)

-----------------------------------------------------------------------------
(* Properties of the ids handed out (Spec)                                 *)

CreatedIds == {c.id : c \in created}
RowIds == {rows[k].id : k \in 1..Len(rows)}

\* thread t's INSERT runs in this step
InsertRuns(t) == pc[t] = "execute" /\ pc'[t] = "commit" /\ op[t] = "add_user"

\* thread t's add_user returns an id in this step
CreateReturns(t) ==
    /\ pc[t] = "close" /\ pc'[t] = "done" /\ op[t] = "add_user"
    /\ result'[t].kind = "ret"

\* no step changes or removes a stored row
RowsKept == \A k \in 1..Len(rows) : Len(rows') >= k /\ rows'[k] = rows[k]

\* C12 as claimed: every id add_user returns is positive, differs from every
\* id returned before, and is greater than every id returned by a create
\* that completed earlier; stored rows keep their ids.
C12_IdsIncreaseInOrderOfReturn ==
    [][/\ \A t \in Threads : CreateReturns(t) =>
              /\ result'[t].val.id > 0
              /\ \A i \in CreatedIds : i < result'[t].val.id
       /\ RowsKept]_vars

\* C12 amended: ids increase in the order the INSERTs run, which is the
\* order of commit, not the order in which the calls return.  The id an
\* INSERT is given is positive and greater than every id stored and every
\* id a create had returned by then; the id a create returns is the one its
\* INSERT was given, is stored under that id and was never returned before;
\* stored rows keep their ids, and a rolled-back create returns none.
C12_IdsIncreaseInOrderOfInsert ==
    [][/\ \A t \in Threads : InsertRuns(t) =>
              /\ Len(pending'[t]) = 1
              /\ pending'[t][1].id > 0
              /\ retval'[t] = IntVal(pending'[t][1].id)
              /\ \A i \in RowIds \cup CreatedIds : i < pending'[t][1].id
       /\ \A t \in Threads : CreateReturns(t) =>
              /\ result'[t].val = retval[t]
              /\ result'[t].val.id > 0
              /\ result'[t].val.id \notin CreatedIds
              /\ result'[t].val.id \in RowIds
              /\ ~Failed(t)
       /\ RowsKept]_vars

\* C12 witness: the create whose INSERT was given id 1 returns after the
\* create given id 2 has returned
C12_LateReturnWitness ==
    /\ CreatedIds = {1, 2}
    /\ RowIds = {1, 2}
    /\ \E t \in Threads :
          /\ Finished(t, "add_user")
          /\ result[t] = Ret(IntVal(1))
          /\ \E u \in Threads \ {t} : pc[u] = "idle"

-----------------------------------------------------------------------------
(* Properties of the request handlers (SpecRequest)                        *)

\* the POST carried a name and validate_name has answered
NameValidated == route = "create_user" /\ body = "name" /\ vpc # "call"

\* every code point of s is whitespace
WhitespaceOnly(s) == s # <<>> /\ \A i \in 1..Len(s) : IsSpace(s[i])

\* the repository has not been entered and the store is as the request
\* found it
RepositoryUntouched ==
    /\ ncalls = 0
    /\ \A t \in Threads :
          /\ op[t] = "none"
          /\ conn[t] = "none"
          /\ stmt[t] = NoStmt
          /\ pending[t] = <<>>
    /\ writer = 0
    /\ \E st \in Stores : rows = st.rows /\ seq = Len(st.rows) /\ tableExists = st.table

\* C11: validate_name fails an empty string with "Name is required"
\* (MissingValue), a whitespace-only string with "Name cannot be empty"
\* (EmptyAfterTrim) and a string longer than max_length after stripping with
\* the too-long message (TooLong); and for a request whose name failed
\* validation create_user answers 400 with that message, add_user is never
\* called and no row is written.
C11_InvalidNameNeverReachesRepository ==
    NameValidated =>
        /\ raw.kind = "str" =>
              /\ raw.s = <<>> => verdict = Invalid(MsgRequired)
              /\ WhitespaceOnly(raw.s) => verdict = Invalid(MsgEmpty)
              /\ Len(Strip(raw.s)) > maxLength => verdict = Invalid(MsgTooLong(maxLength))
        /\ ~verdict.ok =>
              /\ RepositoryUntouched
              /\ rpc \in {"validate", "responded"}
              /\ rpc = "responded" => http = ErrorResponse(400, verdict.msg)

\* C11 witness: a name too long after stripping was answered 400 and the
\* stored user is as before
C11_TooLongRejectedWitness ==
    /\ NameValidated
    /\ raw.kind = "str"
    /\ Len(Strip(raw.s)) > maxLength
    /\ rpc = "responded"
    /\ http = ErrorResponse(400, MsgTooLong(maxLength))
    /\ rows = <<[id |-> 1, name |-> <<65>>]>>

\* the request was answered with a user: 201 from create_user, 200 from
\* get_user_endpoint
Succeeded(i) == rpc = "responded" /\ http.status \in {200, 201} /\ http.id = i

\* an id leaves the list only from its head, when the list is full and
\* another id is appended
LeavesOnlyByEviction ==
    \A i \in UserIds :
        (InList(active, i) /\ ~InList(active', i)) =>
            /\ Len(active) = ActiveCapacity
            /\ active[1] = i
            /\ Len(active') = ActiveCapacity

\* C13 as claimed: after every successful create and every successful read
\* of a user, set_user_active is called for that user's id, so the id comes
\* to be in the active list; it stays there until five other ids have been
\* marked after it.  (A handler ends with its return statement: once the
\* response is out, no statement of the request is left to run.)
C13_SuccessLeadsToActive ==
    /\ \A i \in UserIds : Succeeded(i) ~> InList(active, i)
    /\ [][LeavesOnlyByEviction]_vars

-----------------------------------------------------------------------------
(* Properties of startup (SpecStartup)                                     *)

\* init_db ran at startup and raised
InitFailed == op[1] = "init_db" /\ pc[1] = "done" /\ result[1].kind = "raise"

\* create_app has returned or raised
StartupOver == apc \in {"running", "failed"}

\* C14 as claimed: when init_db runs at startup and fails, create_app
\* raises that error and returns no application, except with DEBUG set,
\* when the failure is logged and create_app goes on to return a running
\* application; with DEBUG unset the failure is never swallowed.
C14_InitFailureFatalUnlessDebug ==
    (InitFailed /\ StartupOver) =>
        IF cfg.debug
        THEN /\ errorLog = <<result[1].err>>
             /\ apc = "running"
             /\ app = "Flask"
             /\ appErr = NoErr
        ELSE /\ apc = "failed"
             /\ app = "none"
             /\ appErr = result[1].err

====
